---- MODULE Spec2Model ----
(***************************************************************************)
(* Model of pybuilder/plugins/python/coverage_plugin.py: run_coverage,     *)
(* do_coverage and their helpers, as a state machine.  One run of          *)
(* run_coverage is modelled, in fork and in non-fork mode, under both      *)
(* interpreter lines the file supports (the StringIO import fallback):     *)
(* the "/" operator floors on Python 2 and is a true division on Python 3. *)
(***************************************************************************)
EXTENDS Integers, Sequences, FiniteSets, TLC

\* ---- bounds ----
MaxModules == 2      \* module names are 1..MaxModules
MaxLines == 3        \* an analysis reports at most MaxLines executable lines

\* ---- program constants and input sets ----
DefaultThreshold == 70
Thresholds == {DefaultThreshold}   \* coverage_threshold_warn as set by line 40
PythonVersions == {2, 3}
Names == 1..MaxModules

VARIABLES
    python,           \* major version of the interpreter running the plugin
    project,          \* the properties do_coverage reads and sets
    module_names,     \* discover_modules(...): the discovered module names
    sys_modules,      \* names present in sys.modules
    cov,              \* the instrumenter: "new", "started", "stopped"
    reloaded,         \* modules passed to imp.reload
    measured,         \* what coverage.analysis returned, per module
    i,                \* position of the for loop over module_names
    modules,          \* do_coverage: modules
    report,           \* do_coverage: report
    sum_lines,
    sum_lines_not_covered,
    coverage_too_low,
    log,              \* logger.warn / logger.info calls made (module 0: overall)
    written,          \* artifacts written: project.write_report, xml, save
    pc,               \* position inside do_coverage
    exc,              \* exception that left do_coverage
    rc,               \* position inside run_coverage
    rc_exc,           \* exception that left run_coverage
    process           \* the multiprocessing.Process of fork mode

vars == <<python, project, module_names, sys_modules, cov, reloaded, measured,
          i, modules, report, sum_lines, sum_lines_not_covered,
          coverage_too_low, log, written, pc, exc, rc, rc_exc, process>>

\* ---- numbers: a value int + rem/den with 0 <= rem < den ----
RECURSIVE GCD(_, _)
GCD(a, b) == IF b = 0 THEN a ELSE GCD(b, a % b)

Num(n) == [int |-> n, rem |-> 0, den |-> 1]

FloorDiv(a, b) == Num(a \div b)

TrueDiv(a, b) ==
    LET r == a % b
        g == GCD(b, r)
    IN [int |-> a \div b, rem |-> r \div g, den |-> b \div g]

\* the "/" operator of lines 134 and 182 on two ints
Divide(a, b) == IF python = 2 THEN FloorDiv(a, b) ELSE TrueDiv(a, b)

\* "x < threshold" for an int threshold
LessThan(x, t) == x.int < t

RECURSIVE SortedSeq(_)
SortedSeq(S) ==
    IF S = {} THEN <<>>
    ELSE LET m == CHOOSE x \in S : \A y \in S : x <= y
         IN <<m>> \o SortedSeq(S \ {m})

Range(s) == {s[k] : k \in DOMAIN s}

\* the report has no "overall_coverage" key yet
NotSet == Num(-1)

\* coverage.analysis has not been called for the module
NoAnalysis == [total |-> -1, missing |-> -1]

\* coverage.analysis(module): len(result[1]) statements, len(result[2]) missing
AnalysisResults ==
    {r \in [total : 0..MaxLines, missing : 0..MaxLines] : r.missing <= r.total}

\* ---- init_coverage_properties and the state before run_coverage ----
Init ==
    /\ python \in PythonVersions
    /\ \E t \in Thresholds, b \in BOOLEAN, r \in BOOLEAN, f \in BOOLEAN,
          d \in SUBSET Names :
          /\ module_names = SortedSeq(d)
          /\ \E e \in SUBSET d :
                project = [threshold_warn |-> t, break_build |-> b,
                           reload_modules |-> r, exceptions |-> e,
                           fork |-> f, running_coverage |-> FALSE]
    /\ sys_modules = {}
    /\ cov = "new"
    /\ reloaded = {}
    /\ measured = [m \in Names |-> NoAnalysis]
    /\ i = 0
    /\ modules = <<>>
    /\ report = [module_names |-> <<>>, overall_coverage |-> NotSet]
    /\ sum_lines = 0
    /\ sum_lines_not_covered = 0
    /\ coverage_too_low = FALSE
    /\ log = {}
    /\ written = {}
    /\ pc = "idle"
    /\ exc = "none"
    /\ rc = "start"
    /\ rc_exc = "none"
    /\ process = [started |-> 0, state |-> "none", exitcode |-> 0]

\* ---- run_coverage, lines 52-68: fork a child or call do_coverage ----
RunCoverage ==
    /\ rc = "start"
    /\ log' = log \cup {[level |-> "info", msg |-> "collecting", module |-> 0]}
    /\ IF project.fork
       THEN /\ process' = [process EXCEPT !.started = @ + 1, !.state = "running"]
            /\ rc' = "join"
       ELSE /\ process' = process
            /\ rc' = "call"
    /\ pc' = "start"
    /\ UNCHANGED <<python, project, module_names, sys_modules, cov, reloaded,
                   measured, i, modules, report, sum_lines,
                   sum_lines_not_covered, coverage_too_low, written, exc,
                   rc_exc>>

\* ---- do_coverage, lines 72-77, and _start_coverage ----
StartCoverage ==
    /\ pc = "start"
    /\ cov' = "started"
    /\ project' = [project EXCEPT !.running_coverage = TRUE]
    /\ pc' = "task"
    /\ UNCHANGED <<python, module_names, sys_modules, reloaded, measured, i,
                   modules, report, sum_lines, sum_lines_not_covered,
                   coverage_too_low, log, written, exc, rc, rc_exc, process>>

\* do_coverage returns or raises: in non-fork mode (lines 67-68) this is also
\* how run_coverage ends; in fork mode it ends the child only
Leave(how, exception) ==
    /\ pc' = how
    /\ exc' = exception
    /\ IF rc = "call"
       THEN rc' = how /\ rc_exc' = exception
       ELSE rc' = rc /\ rc_exc' = rc_exc

\* ---- do_coverage, lines 78-79: reactor.execute_task(target_task) ----
\* The task imports some of the discovered modules; it returns or raises.
ExecuteTask ==
    /\ pc = "task"
    /\ \E loaded \in SUBSET Range(module_names), completes \in BOOLEAN :
          /\ sys_modules' = loaded
          /\ IF completes
             THEN /\ project' = [project EXCEPT !.running_coverage = FALSE]
                  /\ pc' = "reimport"
                  /\ UNCHANGED <<exc, rc, rc_exc>>
             ELSE /\ project' = project
                  /\ Leave("raised", "TaskError")
    /\ UNCHANGED <<python, module_names, cov, reloaded, measured, i, modules,
                   report, sum_lines, sum_lines_not_covered, coverage_too_low,
                   log, written, process>>

\* faulty variant: the reload_modules property is not consulted
ModulesToReload_Always ==
    {m \in Range(module_names) : m \in sys_modules}

\* the modules _reimport_source_modules passes to imp.reload
ModulesToReload ==
    IF project.reload_modules
    THEN {m \in Range(module_names) : m \in sys_modules}
    ELSE {}

\* ---- _stop_coverage, line 157: _reimport_source_modules ----
ReimportSourceModules ==
    /\ pc = "reimport"
    /\ reloaded' = reloaded \cup ModulesToReload
    /\ pc' = "stop"
    /\ UNCHANGED <<python, project, module_names, sys_modules, cov, measured,
                   i, modules, report, sum_lines, sum_lines_not_covered,
                   coverage_too_low, log, written, exc, rc, rc_exc, process>>

\* ---- _stop_coverage, line 158: coverage.stop(); then lines 83-95 ----
StopCoverage ==
    /\ pc = "stop"
    /\ cov' = "stopped"
    /\ coverage_too_low' = FALSE
    /\ report' = [report EXCEPT !.module_names = <<>>]
    /\ sum_lines' = 0
    /\ sum_lines_not_covered' = 0
    /\ modules' = <<>>
    /\ i' = 1
    /\ pc' = "loop"
    /\ UNCHANGED <<python, project, module_names, sys_modules, reloaded,
                   measured, log, written, exc, rc, rc_exc, process>>

\* ---- build_module_report, lines 173-182 ----
CodeCoverage(lines_total, lines_not_covered) ==
    LET lines_covered == lines_total - lines_not_covered
    IN IF lines_total = 0 THEN Num(100)
       ELSE IF lines_covered = 0 THEN Num(0)
       ELSE Divide(lines_covered * 100, lines_total)

\* faulty variant: ignored modules are added to the sums as well
Accumulate_All(sum, value, should_ignore_module) == sum + value

\* lines 108-110: a sum grows only by modules that are not ignored
Accumulate(sum, value, should_ignore_module) ==
    IF should_ignore_module THEN sum ELSE sum + value

\* faulty variant: the exception list does not protect a module
ModuleTooLow_NoExemption(code_coverage, should_ignore_module) ==
    LessThan(code_coverage, project.threshold_warn)

\* lines 123-127: does this module mark the run as failing
ModuleTooLow(code_coverage, should_ignore_module) ==
    LessThan(code_coverage, project.threshold_warn) /\ ~should_ignore_module

\* faulty variant: a module that is not imported marks the run as failing
LoopModuleNotImported_Fails ==
    /\ pc = "loop"
    /\ i <= Len(module_names)
    /\ module_names[i] \notin sys_modules
    /\ log' = log \cup {[level |-> "warn", msg |-> "not imported",
                         module |-> module_names[i]]}
    /\ coverage_too_low' = TRUE
    /\ i' = i + 1
    /\ UNCHANGED <<python, project, module_names, sys_modules, cov, reloaded,
                   measured, modules, report, sum_lines,
                   sum_lines_not_covered, written, pc, exc,
                   rc, rc_exc, process>>

\* ---- do_coverage, lines 96-101: module not in sys.modules ----
LoopModuleNotImported ==
    /\ pc = "loop"
    /\ i <= Len(module_names)
    /\ module_names[i] \notin sys_modules
    /\ log' = log \cup {[level |-> "warn", msg |-> "not imported",
                         module |-> module_names[i]]}
    /\ i' = i + 1
    /\ UNCHANGED <<python, project, module_names, sys_modules, cov, reloaded,
                   measured, modules, report, sum_lines,
                   sum_lines_not_covered, coverage_too_low, written, pc, exc,
                   rc, rc_exc, process>>

\* ---- do_coverage, lines 96-129: one iteration for a loaded module ----
LoopModule ==
    /\ pc = "loop"
    /\ i <= Len(module_names)
    /\ module_names[i] \in sys_modules
    /\ \E analysis_result \in AnalysisResults :
          LET module_name == module_names[i]
              code_coverage == CodeCoverage(analysis_result.total,
                                            analysis_result.missing)
              should_ignore_module == module_name \in project.exceptions
              module_report == [module |-> module_name,
                                coverage |-> code_coverage,
                                sum_lines |-> analysis_result.total,
                                sum_lines_not_covered |-> analysis_result.missing]
              below == LessThan(code_coverage, project.threshold_warn)
          IN /\ measured' = [measured EXCEPT ![module_name] = analysis_result]
             /\ modules' = Append(modules, module_name)
             /\ sum_lines' = Accumulate(sum_lines, analysis_result.total,
                                        should_ignore_module)
             /\ sum_lines_not_covered' =
                    Accumulate(sum_lines_not_covered, analysis_result.missing,
                               should_ignore_module)
             /\ report' = [report EXCEPT
                             !.module_names = Append(@, module_report)]
             /\ coverage_too_low' =
                    (coverage_too_low
                       \/ ModuleTooLow(code_coverage, should_ignore_module))
             /\ log' = IF below
                       THEN log \cup {[level |-> IF should_ignore_module
                                                 THEN "info" ELSE "warn",
                                       msg |-> "below", module |-> module_name]}
                       ELSE log
    /\ i' = i + 1
    /\ UNCHANGED <<python, project, module_names, sys_modules, cov, reloaded,
                   written, pc, exc, rc, rc_exc, process>>

\* lines 131-134
OverallCoverage(sl, slnc) ==
    IF sl = 0 THEN Num(0) ELSE Divide((sl - slnc) * 100, sl)

\* faulty variant: the overall figure does not touch the flag
OverallTooLow_Keep(flag, overall_coverage) == flag

\* lines 137-139: the flag after the overall comparison
OverallTooLow(flag, overall_coverage) ==
    flag \/ LessThan(overall_coverage, project.threshold_warn)

\* ---- do_coverage, lines 131-141 ----
ComputeOverall ==
    /\ pc = "loop"
    /\ i > Len(module_names)
    /\ LET overall_coverage == OverallCoverage(sum_lines, sum_lines_not_covered)
       IN /\ report' = [report EXCEPT !.overall_coverage = overall_coverage]
          /\ coverage_too_low' = OverallTooLow(coverage_too_low, overall_coverage)
          /\ log' = log \cup
                {[level |-> IF LessThan(overall_coverage, project.threshold_warn)
                            THEN "warn" ELSE "info",
                  msg |-> "overall", module |-> 0]}
    /\ pc' = "write_json"
    /\ UNCHANGED <<python, project, module_names, sys_modules, cov, reloaded,
                   measured, i, modules, sum_lines, sum_lines_not_covered,
                   written, exc, rc, rc_exc, process>>

\* faulty variant: the failure is raised before the reports are written
WriteReport_RaisesFirst ==
    /\ pc = "write_json"
    /\ IF coverage_too_low /\ project.break_build
       THEN Leave("raised", "BuildFailedException") /\ written' = written
       ELSE /\ pc' = "summary"
            /\ UNCHANGED <<exc, rc, rc_exc>>
            /\ written' = written \cup {"coverage.json"}
    /\ UNCHANGED <<python, project, module_names, sys_modules, cov, reloaded,
                   measured, i, modules, report, sum_lines,
                   sum_lines_not_covered, coverage_too_low, log, process>>

\* ---- do_coverage, line 143: project.write_report("<prefix>.json", ...) ----
WriteReport ==
    /\ pc = "write_json"
    /\ written' = written \cup {"coverage.json"}
    /\ pc' = "summary"
    /\ UNCHANGED <<python, project, module_names, sys_modules, cov, reloaded,
                   measured, i, modules, report, sum_lines,
                   sum_lines_not_covered, coverage_too_low, log, exc, rc,
                   rc_exc, process>>

\* the steps of _write_summary_report at which coverage may raise
\* CoverageException ("no data"), or "none"
NoDataSteps == {"none", "report", "xml_report", "save"}

\* ---- _write_summary_report, lines 189-200 ----
\* coverage.report (line 193) is outside the try block; xml_report and save
\* (lines 195-196) are inside it, and after either of them raised line 199
\* still writes the summary.  Of the artifacts only those written with
\* project.write_report are recorded.
WriteSummaryReport ==
    /\ pc = "summary"
    /\ \E no_data \in NoDataSteps :
          IF no_data = "report"
          THEN /\ Leave("raised", "CoverageException")
               /\ written' = written
          ELSE /\ pc' = "check"
               /\ UNCHANGED <<exc, rc, rc_exc>>
               /\ written' = written \cup {"coverage"}
    /\ UNCHANGED <<python, project, module_names, sys_modules, cov, reloaded,
                   measured, i, modules, report, sum_lines,
                   sum_lines_not_covered, coverage_too_low, log, process>>

\* ---- do_coverage, lines 147-148 ----
RaiseIfTooLow ==
    /\ pc = "check"
    /\ IF coverage_too_low /\ project.break_build
       THEN Leave("raised", "BuildFailedException")
       ELSE Leave("returned", exc)
    /\ UNCHANGED <<python, project, module_names, sys_modules, cov, reloaded,
                   measured, i, modules, report, sum_lines,
                   sum_lines_not_covered, coverage_too_low, log, written,
                   process>>

\* ---- the child of fork mode is ended by a signal while the task runs ----
ChildKilled ==
    /\ rc = "join"
    /\ process.state = "running"
    /\ pc = "task"
    /\ pc' = "killed"
    /\ UNCHANGED <<python, project, module_names, sys_modules, cov, reloaded,
                   measured, i, modules, report, sum_lines,
                   sum_lines_not_covered, coverage_too_low, log, written, exc,
                   rc, rc_exc, process>>

\* multiprocessing: 0 on return, 1 on an uncaught exception, -N on signal N
\* (here signal 9)
ExitCode(child_pc) ==
    IF child_pc = "returned" THEN 0
    ELSE IF child_pc = "raised" THEN 1
    ELSE -9

\* faulty variant: only a positive exit code counts as a failure
ForkFailed_PositiveOnly(exitcode) == exitcode > 0 /\ project.break_build

\* line 63: the parent's test of the exit code
ForkFailed(exitcode) == exitcode # 0 /\ project.break_build

\* ---- run_coverage, lines 62-65: process.join() and the exit code ----
ProcessJoin ==
    /\ rc = "join"
    /\ process.state = "running"
    /\ pc \in {"returned", "raised", "killed"}
    /\ process' = [process EXCEPT !.state = "exited", !.exitcode = ExitCode(pc)]
    /\ IF ForkFailed(ExitCode(pc))
       THEN rc' = "raised" /\ rc_exc' = "BuildFailedException"
       ELSE rc' = "returned" /\ rc_exc' = rc_exc
    /\ UNCHANGED <<python, project, module_names, sys_modules, cov, reloaded,
                   measured, i, modules, report, sum_lines,
                   sum_lines_not_covered, coverage_too_low, log, written, pc,
                   exc>>

Next ==
    \/ RunCoverage
    \/ StartCoverage
    \/ ExecuteTask
    \/ ReimportSourceModules
    \/ StopCoverage
    \/ LoopModuleNotImported
    \/ LoopModule
    \/ ComputeOverall
    \/ WriteReport
    \/ WriteSummaryReport
    \/ RaiseIfTooLow
    \/ ChildKilled
    \/ ProcessJoin

Spec == Init /\ [][Next]_vars

TypeOK ==
    /\ python \in PythonVersions
    /\ sys_modules \subseteq Names
    /\ cov \in {"new", "started", "stopped"}
    /\ coverage_too_low \in BOOLEAN
    /\ pc \in {"idle", "start", "task", "reimport", "stop", "loop",
               "write_json", "summary", "check", "returned", "raised", "killed"}
    /\ rc \in {"start", "call", "join", "returned", "raised"}
    /\ exc \in {"none", "TaskError", "CoverageException", "BuildFailedException"}

\* ---- vocabulary of the properties ----
Entries == Range(report.module_names)

\* names the for loop of lines 96-129 has already visited
Visited == {module_names[k] : k \in 1..(i - 1)}

\* line 135 has run: report["overall_coverage"] is set
OverallComputed == report.overall_coverage # NotSet

Finished == rc \in {"returned", "raised"}

RECURSIVE SumTotal(_)
SumTotal(S) ==
    IF S = {} THEN 0
    ELSE LET m == CHOOSE x \in S : TRUE
         IN measured[m].total + SumTotal(S \ {m})

RECURSIVE SumMissing(_)
SumMissing(S) ==
    IF S = {} THEN 0
    ELSE LET m == CHOOSE x \in S : TRUE
         IN measured[m].missing + SumMissing(S \ {m})

\* loaded, visited modules that are not in the exception list
Counted == (Visited \cap sys_modules) \ project.exceptions

\* is the exact value total-missing over total, in percent, below t
BelowThreshold(r, t) ==
    IF r.total = 0 THEN 100 < t
    ELSE (r.total - r.missing) * 100 < t * r.total

\* the flag has a cause: a counted module below the threshold, or the overall
\* figure below the threshold
FlagHasCause ==
    \/ \E m \in Counted : BelowThreshold(measured[m], project.threshold_warn)
    \/ OverallComputed /\ LessThan(report.overall_coverage, project.threshold_warn)

\* C1: in a non-fork run whose target task completed, BuildFailedException
\* leaves run_coverage if and only if the too-low flag is set and
\* break_build is true.
C1_FailureIffFlagAndBreak ==
    (Finished /\ ~project.fork /\ rc_exc # "TaskError")
        => ((rc_exc = "BuildFailedException")
              <=> (coverage_too_low /\ project.break_build))

\* C2: a loaded module of the exception list never sets the too-low flag
\* (its low coverage is logged at info level only) and is in the report with
\* the line counts and the percentage of its analysis.
C2_ExemptedReportedNotFailing ==
    /\ \A m \in (Visited \cap sys_modules) \cap project.exceptions :
          /\ \E e \in Entries :
                /\ e.module = m
                /\ e.sum_lines = measured[m].total
                /\ e.sum_lines_not_covered = measured[m].missing
                /\ e.coverage \in
                      {FloorDiv(IF e.sum_lines = 0 THEN 100
                                ELSE (e.sum_lines - e.sum_lines_not_covered) * 100,
                                IF e.sum_lines = 0 THEN 1 ELSE e.sum_lines),
                       TrueDiv(IF e.sum_lines = 0 THEN 100
                               ELSE (e.sum_lines - e.sum_lines_not_covered) * 100,
                               IF e.sum_lines = 0 THEN 1 ELSE e.sum_lines)}
          /\ [level |-> "warn", msg |-> "below", module |-> m] \notin log
          /\ BelowThreshold(measured[m], project.threshold_warn)
                => [level |-> "info", msg |-> "below", module |-> m] \in log
    /\ coverage_too_low => FlagHasCause

C2_Witness ==
    /\ pc = "check"
    /\ ~coverage_too_low
    /\ \E m \in sys_modules \cap project.exceptions :
          /\ measured[m].total = 3 /\ measured[m].missing = 3
          /\ [level |-> "info", msg |-> "below", module |-> m] \in log

\* C3: an overall percentage below the threshold sets the flag, whatever the
\* exception list and the per-module results are.
C3_OverallBelowSetsFlag ==
    (OverallComputed /\ LessThan(report.overall_coverage, project.threshold_warn))
        => coverage_too_low

C3_Witness ==
    /\ pc = "check"
    /\ module_names # <<>>
    /\ Range(module_names) = project.exceptions
    /\ sys_modules = Range(module_names)
    /\ \A m \in sys_modules : measured[m].total > 0 /\ measured[m].missing = 0
    /\ LessThan(report.overall_coverage, project.threshold_warn)
    /\ coverage_too_low

\* C4: every reported percentage is between 0 and 100, is 100 for no lines,
\* 0 for no covered line, and otherwise the floor of covered*100/total.
C4_PercentageIsFloor ==
    \A e \in Entries :
        LET t == e.sum_lines
            u == e.sum_lines_not_covered
        IN /\ LessThan(Num(-1), e.coverage.int + 1)
           /\ e.coverage.int <= 100
           /\ e.coverage =
                 IF t = 0 THEN Num(100)
                 ELSE IF t - u = 0 THEN Num(0)
                 ELSE Num(((t - u) * 100) \div t)

\* C5: the overall percentage of the report is the quotient of the sums over
\* the loaded modules outside the exception list, and 0 when they have no
\* lines.
C5_OverallFromCountedModules ==
    OverallComputed =>
        LET sl == SumTotal(Counted)
            slnc == SumMissing(Counted)
        IN /\ sum_lines = sl
           /\ sum_lines_not_covered = slnc
           /\ IF sl = 0
              THEN report.overall_coverage = Num(0)
              ELSE report.overall_coverage \in
                      {FloorDiv((sl - slnc) * 100, sl), TrueDiv((sl - slnc) * 100, sl)}

C5_Witness ==
    /\ "coverage.json" \in written
    /\ \E m \in sys_modules \cap project.exceptions : measured[m].total > 0
    /\ \E m \in Counted : measured[m].total > measured[m].missing
                          /\ measured[m].missing > 0

\* C6: fork mode starts one child, waits for its exit, and raises in the
\* parent if and only if the exit code is non-zero and break_build is true.
C6_ForkFailureIffExitCode ==
    project.fork =>
        /\ process.started <= 1
        /\ rc # "call"
        /\ process.state = "running" => rc = "join"
        /\ Finished =>
              /\ process.started = 1
              /\ process.state = "exited"
              /\ (rc = "raised") <=> (process.exitcode # 0 /\ project.break_build)
              /\ (rc_exc = "BuildFailedException") <=> (rc = "raised")
              /\ process.exitcode = 0 => rc = "returned"

C6_Witness ==
    /\ project.fork /\ Finished /\ rc = "raised"
    /\ process.started = 1 /\ process.state = "exited"
    /\ process.exitcode = 1

C8_ReloadAfterStop ==
    [][reloaded' # reloaded => cov = "stopped"]_vars

\* C8 amended: with reload_modules set every discovered module still loaded
\* is reloaded, after the target task and before coverage.stop() (so before
\* any analysis); without the flag no module is reloaded.
C8_ReloadBeforeStop ==
    /\ [](pc \in {"stop", "loop", "write_json", "summary", "check", "returned"}
            => reloaded = IF project.reload_modules
                          THEN Range(module_names) \cap sys_modules ELSE {})
    /\ [](reloaded # {} => project.reload_modules)
    /\ [][reloaded' # reloaded =>
            /\ cov = "started" /\ cov' = "started"
            /\ ~project.running_coverage
            /\ pc = "reimport"
            /\ \A m \in Names : measured[m] = NoAnalysis]_vars

C8_Witness ==
    /\ pc = "loop" /\ i > 1
    /\ cov = "stopped"
    /\ reloaded # {}
    /\ \E m \in reloaded : measured[m] # NoAnalysis

\* C9: a CoverageException raised while the summary is written never leaves
\* do_coverage, and the plain-text summary is written.
C9_NoDataSwallowed ==
    /\ exc # "CoverageException"
    /\ pc \in {"check", "returned"} => "coverage" \in written

\* C10: in a non-fork run BuildFailedException is raised last, after the
\* structured report and the summary report have been written.
C10_FailureAfterReports ==
    /\ []((~project.fork /\ exc = "BuildFailedException")
            => /\ {"coverage.json", "coverage"} \subseteq written
               /\ pc = "raised" /\ rc = "raised"
               /\ rc_exc = "BuildFailedException")
    /\ [][(~project.fork /\ exc = "BuildFailedException") => UNCHANGED vars]_vars

C10_Witness ==
    /\ ~project.fork
    /\ rc = "raised" /\ rc_exc = "BuildFailedException"
    /\ {"coverage.json", "coverage"} \subseteq written

====
